---------------------------- MODULE Spec2Model ----------------------------
(***************************************************************************)
(* The function algebra of cil/optimisation/functions/Function.py:         *)
(* Function, SumFunction, ScaledFunction, SumScalarFunction,               *)
(* ConstantFunction, ZeroFunction and TranslateFunction.                   *)
(*                                                                         *)
(* Python objects live in two heaps.  nodes is the heap of Function        *)
(* objects (a node's identity is its index), vecs the heap of the vector   *)
(* objects that outlive a call (the centers of TranslateFunction nodes).   *)
(* Numbers are exact rationals <<numerator, denominator>>; a vector is a   *)
(* one-element container, so the elementwise kernels, dot and sum act on   *)
(* its single element.                                                     *)
(*                                                                         *)
(* reader is the ZEISSDataReader of cil/io/ZEISSDataReader.py as far as    *)
(* its region of interest goes.                                            *)
(***************************************************************************)
EXTENDS Integers, Sequences, FiniteSets, TLC

VARIABLES nodes, vecs, last, reader

vars == <<nodes, vecs, last, reader>>

\* a ZEISSDataReader() given no file: the client of the function algebra has no
\* use for it
NoReader == [file_type |-> "", shape |-> <<>>, roi |-> <<>>, arg |-> <<>>, st |-> "ok"]

-----------------------------------------------------------------------------
(* Exact rational arithmetic (numbers.Number values and vector elements).  *)

RECURSIVE Gcd(_, _)
Gcd(a, b) == IF b = 0 THEN a ELSE Gcd(b, a % b)

IAbs(n) == IF n < 0 THEN -n ELSE n

\* n/d in lowest terms with a positive denominator (d # 0)
Q(n, d) ==
    LET g == Gcd(IAbs(n), IAbs(d))
        s == IF d < 0 THEN -1 ELSE 1
    IN  <<(s * n) \div g, (s * d) \div g>>

I(n) == <<n, 1>>

\* Python's None where a number may stand (no number has denominator 0)
None == <<0, 0>>

IsNone(v) == v[2] = 0

QAdd(a, b) == Q(a[1] * b[2] + b[1] * a[2], a[2] * b[2])
QSub(a, b) == Q(a[1] * b[2] - b[1] * a[2], a[2] * b[2])
QMul(a, b) == Q(a[1] * b[1], a[2] * b[2])
QDiv(a, b) == Q(a[1] * b[2], a[2] * b[1])
QNeg(a) == <<-a[1], a[2]>>
QAbs(a) == <<IAbs(a[1]), a[2]>>
QLe(a, b) == a[1] * b[2] <= b[1] * a[2]
QMax(a, b) == IF QLe(a, b) THEN b ELSE a

-----------------------------------------------------------------------------
(* Values handed to the builders: a Function object, a number, None, or an *)
(* object of another type (a str).                                         *)

ArgNode(i) == [t |-> "node", n |-> i, q |-> None]
ArgNum(q)  == [t |-> "num",  n |-> 0, q |-> q]
ArgNone    == [t |-> "none", n |-> 0, q |-> None]
ArgStr     == [t |-> "str",  n |-> 0, q |-> None]

\* isinstance(value, Number)
IsNumber(a) == a.t = "num"

-----------------------------------------------------------------------------
(* Function objects.  kind is the class; L is the attribute _L; Lmax the   *)
(* attribute _Lmax (None until Lmax has been computed).  assigned records  *)
(* that the client has assigned L through the setter; no operator reads it.*)

Kinds == {"Function", "Leaf", "Constant", "Zero", "Sum", "SumScalar", "Scaled", "Translate"}

Blank(kind) ==
    [kind |-> kind, L |-> None, Lmax |-> None, functions |-> <<>>, function |-> 0,
     scalar |-> None, constant |-> None, center |-> 0, assigned |-> FALSE]

\* isinstance(f, SumFunction): SumScalarFunction is a subclass
IsSumFunction(n) == n.kind \in {"Sum", "SumScalar"}

\* isinstance(f, ConstantFunction): ZeroFunction is a subclass
IsConstantFunction(n) == n.kind \in {"Constant", "Zero"}

\* the outcome of a constructor or builder: the heap, how it ended, the object returned
Built(ns, st, ret) == [ns |-> ns, st |-> st, ret |-> ret]

Alloc(ns, rec) == Built(Append(ns, rec), "ok", Len(ns) + 1)

\* Function.__init__(L = None) called directly: an object with no operator of its own
Function_init(ns) == Alloc(ns, Blank("Function"))


\* a leaf supplied by the library (L2NormSquared, F(x) = ||x||^2, Lipschitz constant 2)
Leaf_init(ns) == Alloc(ns, [Blank("Leaf") EXCEPT !.L = I(2)])

-----------------------------------------------------------------------------
(* The property L.  A getter may assign _L, so it returns the heap too.    *)

Got(ns, st, val) == [ns |-> ns, st |-> st, val |-> val]

RECURSIVE GetL(_, _)

\* a Function.L that a TranslateFunction answered by asking its function again
Function_L_live(ns, i) ==
    IF ns[i].kind = "Translate" THEN GetL(ns, ns[i].function)
    ELSE Got(ns, "ok", ns[i].L)

\* Function.L (getter): also what TranslateFunction and the leaves use
Function_L(ns, i) == Got(ns, "ok", ns[i].L)

\* a ConstantFunction.L that returned the constant
ConstantFunction_L_constant(ns, i) == Got(ns, "ok", ns[i].constant)

\* ConstantFunction.L (getter)
ConstantFunction_L(ns, i) == Got(ns, "ok", I(0))

\* the loop of SumFunction.L over self.functions[k..], L being the running sum
RECURSIVE SumFunction_L_loop(_, _, _, _)
SumFunction_L_loop(ns, fs, k, L) ==
    IF k > Len(fs) THEN Got(ns, "ok", L)
    ELSE LET r1 == GetL(ns, fs[k])
         IN  IF ~IsNone(r1.val)
             THEN LET r2 == GetL(r1.ns, fs[k])
                  IN  SumFunction_L_loop(r2.ns, fs, k + 1, QAdd(L, r2.val))
             ELSE Got(r1.ns, "ok", None)

\* a SumFunction.L that kept a value once it has one, as ScaledFunction.L does
SumFunction_L_memo(ns, i) ==
    IF ~IsNone(ns[i].L) THEN Got(ns, "ok", ns[i].L)
    ELSE LET r == SumFunction_L_loop(ns, ns[i].functions, 1, I(0))
         IN  Got([r.ns EXCEPT ![i].L = r.val], "ok", r.val)

\* SumFunction.L (getter)
SumFunction_L(ns, i) ==
    LET r == SumFunction_L_loop(ns, ns[i].functions, 1, I(0))
    IN  Got([r.ns EXCEPT ![i].L = r.val], "ok", r.val)

\* ScaledFunction.L (getter)
ScaledFunction_L(ns, i) ==
    IF IsNone(ns[i].L)
    THEN LET r1 == GetL(ns, ns[i].function)
         IN  IF ~IsNone(r1.val)
             THEN LET r2 == GetL(r1.ns, ns[i].function)
                      v  == QMul(QAbs(ns[i].scalar), r2.val)
                  IN  Got([r2.ns EXCEPT ![i].L = v], "ok", v)
             ELSE Got([r1.ns EXCEPT ![i].L = None], "ok", None)
    ELSE Got(ns, "ok", ns[i].L)

\* SumScalarFunction.L (getter)
SumScalarFunction_L(ns, i) ==
    IF IsNone(ns[i].L)
    THEN LET r1 == GetL(ns, ns[i].function)
         IN  IF ~IsNone(r1.val)
             THEN LET r2 == GetL(r1.ns, ns[i].function)
                  IN  Got([r2.ns EXCEPT ![i].L = r2.val], "ok", r2.val)
             ELSE Got([r1.ns EXCEPT ![i].L = None], "ok", None)
    ELSE Got(ns, "ok", ns[i].L)

\* reading f.L: the getter of f's class
GetL(ns, i) ==
    CASE ns[i].kind = "Sum"       -> SumFunction_L(ns, i)
      [] ns[i].kind = "SumScalar" -> SumScalarFunction_L(ns, i)
      [] ns[i].kind = "Scaled"    -> ScaledFunction_L(ns, i)
      [] IsConstantFunction(ns[i]) -> ConstantFunction_L(ns, i)
      [] OTHER                    -> Function_L(ns, i)

\* a Function.L setter that stored the value before it looked at it
Function_L_set_store_first(ns, i, value) ==
    IF IsNumber(value) /\ QLe(I(0), value.q)
    THEN Got([ns EXCEPT ![i].L = value.q, ![i].assigned = TRUE], "ok", None)
    ELSE Got([ns EXCEPT ![i].L = value.q], "TypeError", None)

\* Function.L (setter), which the setters of SumFunction, ScaledFunction and
\* SumScalarFunction call
Function_L_set(ns, i, value) ==
    IF IsNumber(value) /\ QLe(I(0), value.q)
    THEN Got([ns EXCEPT ![i].L = value.q, ![i].assigned = TRUE], "ok", None)
    ELSE Got(ns, "TypeError", None)

\* assigning f.L: ConstantFunction redefines the property without a setter
SetL(ns, i, value) ==
    IF IsConstantFunction(ns[i]) THEN Got(ns, "AttributeError", None)
    ELSE Function_L_set(ns, i, value)

\* the loop of SumFunction.Lmax over self.functions[k..]; l is the list built so far
RECURSIVE SumFunction_Lmax_loop(_, _, _, _)
SumFunction_Lmax_loop(ns, fs, k, l) ==
    IF k > Len(fs) THEN [ns |-> ns, l |-> l, none |-> FALSE]
    ELSE LET r1 == GetL(ns, fs[k])
         IN  IF ~IsNone(r1.val)
             THEN LET r2 == GetL(r1.ns, fs[k])
                  IN  SumFunction_Lmax_loop(r2.ns, fs, k + 1, Append(l, r2.val))
             ELSE [ns |-> r1.ns, l |-> <<>>, none |-> TRUE]

\* max(l) of a non-empty list of numbers
RECURSIVE MaxOf(_)
MaxOf(l) == IF Len(l) = 1 THEN l[1] ELSE QMax(l[1], MaxOf(Tail(l)))

\* SumFunction.Lmax (getter): max(None) raises TypeError
SumFunction_Lmax(ns, i) ==
    LET r == SumFunction_Lmax_loop(ns, ns[i].functions, 1, <<>>)
    IN  IF r.none THEN Got(r.ns, "TypeError", None)
        ELSE Got([r.ns EXCEPT ![i].Lmax = MaxOf(r.l)], "ok", MaxOf(r.l))

\* reading f.Lmax: only SumFunction and its subclass have the property
GetLmax(ns, i) ==
    IF IsSumFunction(ns[i]) THEN SumFunction_Lmax(ns, i)
    ELSE Got(ns, "AttributeError", None)

-----------------------------------------------------------------------------
(* Constructors.  A constructor that raises leaves no object behind.       *)

\* a SumFunction.__init__ that asked for one function only
SumFunction_init_one(ns, fs) ==
    IF Len(fs) < 1 THEN Built(ns, "ValueError", 0)
    ELSE Alloc(ns, [Blank("Sum") EXCEPT !.functions = fs])

\* SumFunction.__init__(*functions)
SumFunction_init(ns, fs) ==
    IF Len(fs) < 2 THEN Built(ns, "ValueError", 0)
    ELSE Alloc(ns, [Blank("Sum") EXCEPT !.functions = fs])

\* ConstantFunction.__init__(constant) with the setter of constant
ConstantFunction_init(ns, constant) ==
    IF ~IsNumber(constant) THEN Built(ns, "TypeError", 0)
    ELSE Alloc(ns, [Blank("Constant") EXCEPT !.constant = constant.q, !.L = I(0)])

\* ZeroFunction.__init__()
ZeroFunction_init(ns) ==
    Alloc(ns, [Blank("Zero") EXCEPT !.constant = I(0), !.L = I(0)])

\* SumScalarFunction.__init__(function, constant)
SumScalarFunction_init(ns, function, constant) ==
    LET c == ConstantFunction_init(ns, constant)
    IN  IF c.st # "ok" THEN Built(ns, c.st, 0)
        ELSE Alloc(c.ns, [Blank("SumScalar") EXCEPT !.functions = <<function, c.ret>>,
                                                    !.constant = constant.q,
                                                    !.function = function])

\* ScaledFunction.__init__(function, scalar)
ScaledFunction_init(ns, function, scalar) ==
    IF ~IsNumber(scalar) THEN Built(ns, "TypeError", 0)
    ELSE Alloc(ns, [Blank("Scaled") EXCEPT !.scalar = scalar.q, !.function = function])

\* TranslateFunction.__init__(function, center)
TranslateFunction_init(ns, function, center) ==
    LET r == GetL(ns, function)
    IN  Alloc(r.ns, [Blank("Translate") EXCEPT !.L = r.val, !.function = function,
                                                !.center = center])

-----------------------------------------------------------------------------
(* The builders: +, reflected +, -, *, reflected *, centered_at.           *)

\* a Function.__add__ that tested for a constant before testing for a Function
Function_add_constant_first(ns, self, other) ==
    IF other.t = "node" /\ IsConstantFunction(ns[other.n])
    THEN SumScalarFunction_init(ns, self, ArgNum(ns[other.n].constant))
    ELSE IF other.t = "node" THEN SumFunction_init(ns, <<self, other.n>>)
    ELSE IF IsNumber(other) THEN SumScalarFunction_init(ns, self, other)
    ELSE Built(ns, "ValueError", 0)

\* Function.__add__(self, other): every object of the heap is a Function, so the
\* second test is reached by numbers only
Function_add(ns, self, other) ==
    IF other.t = "node" THEN SumFunction_init(ns, <<self, other.n>>)
    ELSE IF IsNumber(other) THEN SumScalarFunction_init(ns, self, other)
    ELSE Built(ns, "ValueError", 0)

\* SumFunction.__add__(self, other)
SumFunction_add(ns, self, other) ==
    IF other.t = "node" /\ IsSumFunction(ns[other.n])
    THEN SumFunction_init(ns, ns[self].functions \o ns[other.n].functions)
    ELSE IF other.t = "node"
    THEN SumFunction_init(ns, Append(ns[self].functions, other.n))
    ELSE Function_add(ns, self, other)

\* self + other, by the class of self
Plus(ns, self, other) ==
    IF IsSumFunction(ns[self]) THEN SumFunction_add(ns, self, other)
    ELSE Function_add(ns, self, other)

\* Function.__radd__(self, other)
Function_radd(ns, self, other) == Plus(ns, self, other)

\* Function.__rmul__(self, scalar)
Function_rmul(ns, self, scalar) == ScaledFunction_init(ns, self, scalar)

\* a ConstantFunction that had no __rmul__ of its own and took Function's
ConstantFunction_rmul_inherited(ns, self, other) == ScaledFunction_init(ns, self, other)

\* ConstantFunction.__rmul__(self, other): raise NotImplemented is a TypeError
ConstantFunction_rmul(ns, self, other) ==
    IF ~IsNumber(other) THEN Built(ns, "TypeError", 0)
    ELSE ConstantFunction_init(ns, ArgNum(QMul(ns[self].constant, other.q)))

\* self.__rmul__(scalar), by the class of self
RTimes(ns, self, scalar) ==
    IF IsConstantFunction(ns[self]) THEN ConstantFunction_rmul(ns, self, scalar)
    ELSE Function_rmul(ns, self, scalar)

\* Function.__mul__(self, scalar)
Function_mul(ns, self, scalar) == RTimes(ns, self, scalar)

\* Function.__sub__(self, other): self + (-1) * other
Function_sub(ns, self, other) ==
    CASE other.t = "node" ->
            LET m == RTimes(ns, other.n, ArgNum(I(-1)))
            IN  Plus(m.ns, self, ArgNode(m.ret))
      [] other.t = "num"  -> Plus(ns, self, ArgNum(QNeg(other.q)))
      [] other.t = "str"  -> Plus(ns, self, ArgStr)
      [] OTHER            -> Built(ns, "TypeError", 0)

\* Function.centered_at(self, center): center is a vector of vecs, 0 for None
Function_centered_at(ns, self, center) ==
    IF center = 0 THEN Built(ns, "ok", self)
    ELSE TranslateFunction_init(ns, self, center)

-----------------------------------------------------------------------------
(* Vectors.  A vector object is [val, inplace]: its element, and whether   *)
(* the container takes a result written into it (out = itself).  A         *)
(* container of integers does not: the kernel raises TypeError, which is   *)
(* what sends the operators down their allocating path.  h is the heap of  *)
(* vector objects during a call.                                           *)

\* the outcome of an operator: the heap, how it ended, the number returned (q) or the
\* vector returned (id, 0 when nothing is returned)
Ret(h, st, q, id) == [h |-> h, st |-> st, q |-> q, id |-> id]

Raise(h, st) == Ret(h, st, None, 0)

\* a kernel with out = o: the result v is written into o
Into(h, o, v) ==
    IF h[o].inplace THEN Ret([h EXCEPT ![o].val = v], "ok", None, 0)
    ELSE Raise(h, "TypeError")

\* a kernel without out (or with dtype = float32): a new vector holding v
New(h, v) == Ret(Append(h, [val |-> v, inplace |-> TRUE]), "ok", None, Len(h) + 1)

\* x.copy()
Copy(h, x) == Ret(Append(h, h[x]), "ok", None, Len(h) + 1)

\* out.fill(v)
Fill(h, o, v) == Ret([h EXCEPT ![o].val = v], "ok", None, 0)

\* a result written to out when out is given (nothing returned), else returned new
Deliver(h, out, v) == IF out = 0 THEN New(h, v) ELSE Fill(h, out, v)

-----------------------------------------------------------------------------
(* The operators.  Call is __call__; every operator is dispatched on the   *)
(* class of the node.                                                      *)

RECURSIVE Call(_, _, _, _)
RECURSIVE Gradient(_, _, _, _, _)
RECURSIVE Proximal(_, _, _, _, _, _)
RECURSIVE ConvexConjugate(_, _, _, _)
RECURSIVE ProximalConjugate(_, _, _, _, _, _)

\* Function.__call__, gradient, proximal, convex_conjugate: raise NotImplementedError
Function_call(ns, h, self, x) == Raise(h, "NotImplementedError")
Function_gradient(ns, h, self, x, out) == Raise(h, "NotImplementedError")
Function_proximal(ns, h, self, x, tau, out) == Raise(h, "NotImplementedError")
Function_convex_conjugate(ns, h, self, x) == Raise(h, "NotImplementedError")

\* the leaf F(x) = ||x||^2
Leaf_call(ns, h, self, x) == Ret(h, "ok", QMul(h[x].val, h[x].val), 0)
Leaf_gradient(ns, h, self, x, out) == Deliver(h, out, QMul(I(2), h[x].val))
Leaf_proximal(ns, h, self, x, tau, out) ==
    Deliver(h, out, QDiv(h[x].val, QAdd(I(1), QMul(I(2), tau))))
Leaf_convex_conjugate(ns, h, self, x) ==
    Ret(h, "ok", QDiv(QMul(h[x].val, h[x].val), I(4)), 0)

\* the rest of proximal_conjugate once the inner proximal has returned r:
\* restore x if it was divided in place, then val = -tau * val + x
MoreauTail(r, x, tmp, tau, out) ==
    LET val == IF out = 0 THEN r.id ELSE out
        h3  == IF tmp = x THEN [r.h EXCEPT ![x].val = QMul(@, tau)] ELSE r.h
        m   == Into(h3, val, QMul(h3[val].val, QNeg(tau)))
        a   == Into(m.h, val, QAdd(m.h[val].val, m.h[x].val))
    IN  IF r.st # "ok" THEN Raise(r.h, r.st)
        ELSE IF m.st # "ok" THEN m
        ELSE IF a.st # "ok" THEN a
        ELSE Ret(a.h, "ok", None, IF out = 0 THEN val ELSE 0)

\* Function.proximal_conjugate(self, x, tau, out)
Function_proximal_conjugate(ns, h, self, x, tau, out) ==
    LET d   == Into(h, x, QDiv(h[x].val, tau))
        n   == New(h, QDiv(h[x].val, tau))
        tmp == IF d.st = "ok" THEN x ELSE n.id
        h1  == IF d.st = "ok" THEN d.h ELSE n.h
        r   == Proximal(ns, h1, self, tmp, QDiv(I(1), tau), out)
    IN  MoreauTail(r, x, tmp, tau, out)

\* the loop of SumFunction.__call__ over self.functions[k..], ret the running sum
RECURSIVE SumFunction_call_loop(_, _, _, _, _, _)

\* a loop of SumFunction.__call__ that went on past a child that failed
SumFunction_call_loop_skipping(ns, h, fs, k, x, ret) ==
    IF k > Len(fs) THEN Ret(h, "ok", ret, 0)
    ELSE LET r == Call(ns, h, fs[k], x)
         IN  IF r.st # "ok" THEN SumFunction_call_loop(ns, r.h, fs, k + 1, x, ret)
             ELSE SumFunction_call_loop(ns, r.h, fs, k + 1, x, QAdd(ret, r.q))

SumFunction_call_loop(ns, h, fs, k, x, ret) ==
    IF k > Len(fs) THEN Ret(h, "ok", ret, 0)
    ELSE LET r == Call(ns, h, fs[k], x)
         IN  IF r.st # "ok" THEN Raise(r.h, r.st)
             ELSE SumFunction_call_loop(ns, r.h, fs, k + 1, x, QAdd(ret, r.q))

\* SumFunction.__call__(self, x)
SumFunction_call(ns, h, self, x) ==
    SumFunction_call_loop(ns, h, ns[self].functions, 1, x, I(0))

\* the loop of SumFunction.gradient over self.functions[k..], k > 1: acc (ret, or out)
\* takes each further gradient with +=
RECURSIVE SumFunction_gradient_loop(_, _, _, _, _, _)
SumFunction_gradient_loop(ns, h, fs, k, x, acc) ==
    IF k > Len(fs) THEN Ret(h, "ok", None, acc)
    ELSE LET r == Gradient(ns, h, fs[k], x, 0)
             a == Into(r.h, acc, QAdd(r.h[acc].val, r.h[r.id].val))
         IN  IF r.st # "ok" THEN Raise(r.h, r.st)
             ELSE IF a.st # "ok" THEN a
             ELSE SumFunction_gradient_loop(ns, a.h, fs, k + 1, x, acc)

\* SumFunction.gradient(self, x, out)
SumFunction_gradient(ns, h, self, x, out) ==
    LET fs == ns[self].functions
        r  == Gradient(ns, h, fs[1], x, out)
        l  == SumFunction_gradient_loop(ns, r.h, fs, 2, x, IF out = 0 THEN r.id ELSE out)
    IN  IF r.st # "ok" THEN Raise(r.h, r.st)
        ELSE IF l.st # "ok" THEN l
        ELSE Ret(l.h, "ok", None, IF out = 0 THEN l.id ELSE 0)

\* ScaledFunction.__call__(self, x)
ScaledFunction_call(ns, h, self, x) ==
    LET r == Call(ns, h, ns[self].function, x)
    IN  IF r.st # "ok" THEN Raise(r.h, r.st)
        ELSE Ret(r.h, "ok", QMul(ns[self].scalar, r.q), 0)

\* ScaledFunction.convex_conjugate(self, x)
ScaledFunction_convex_conjugate(ns, h, self, x) ==
    LET d   == Into(h, x, QDiv(h[x].val, ns[self].scalar))
        n   == New(h, QDiv(h[x].val, ns[self].scalar))
        tmp == IF d.st = "ok" THEN x ELSE n.id
        h1  == IF d.st = "ok" THEN d.h ELSE n.h
        r   == ConvexConjugate(ns, h1, ns[self].function, tmp)
        h3  == IF tmp = x THEN [r.h EXCEPT ![x].val = QMul(@, ns[self].scalar)] ELSE r.h
    IN  IF r.st # "ok" THEN Raise(r.h, r.st)
        ELSE Ret(h3, "ok", QMul(ns[self].scalar, r.q), 0)

\* ScaledFunction.gradient(self, x, out)
ScaledFunction_gradient(ns, h, self, x, out) ==
    LET r == Gradient(ns, h, ns[self].function, x, out)
        m == Into(r.h, out, QMul(r.h[out].val, ns[self].scalar))
    IN  IF r.st # "ok" THEN Raise(r.h, r.st)
        ELSE IF out = 0 THEN New(r.h, QMul(ns[self].scalar, r.h[r.id].val))
        ELSE m

\* ScaledFunction.proximal(self, x, tau, out)
ScaledFunction_proximal(ns, h, self, x, tau, out) ==
    Proximal(ns, h, ns[self].function, x, QMul(tau, ns[self].scalar), out)

\* proximal_conjugate passing 1/tau on to the wrapped function's proximal
ScaledFunction_proximal_conjugate_unscaled(ns, h, self, x, tau, out) ==
    LET d   == Into(h, x, QDiv(h[x].val, tau))
        n   == New(h, QDiv(h[x].val, tau))
        tmp == IF d.st = "ok" THEN x ELSE n.id
        h1  == IF d.st = "ok" THEN d.h ELSE n.h
        r   == Proximal(ns, h1, ns[self].function, tmp, QDiv(I(1), tau), out)
    IN  MoreauTail(r, x, tmp, tau, out)

\* ScaledFunction.proximal_conjugate(self, x, tau, out)
ScaledFunction_proximal_conjugate(ns, h, self, x, tau, out) ==
    LET d   == Into(h, x, QDiv(h[x].val, tau))
        n   == New(h, QDiv(h[x].val, tau))
        tmp == IF d.st = "ok" THEN x ELSE n.id
        h1  == IF d.st = "ok" THEN d.h ELSE n.h
        r   == Proximal(ns, h1, ns[self].function, tmp, QDiv(ns[self].scalar, tau), out)
    IN  MoreauTail(r, x, tmp, tau, out)

\* a SumScalarFunction.convex_conjugate that added the constant
SumScalarFunction_convex_conjugate_plus(ns, h, self, x) ==
    LET r == ConvexConjugate(ns, h, ns[self].function, x)
    IN  IF r.st # "ok" THEN Raise(r.h, r.st)
        ELSE Ret(r.h, "ok", QAdd(r.q, ns[self].constant), 0)

\* SumScalarFunction.convex_conjugate(self, x)
SumScalarFunction_convex_conjugate(ns, h, self, x) ==
    LET r == ConvexConjugate(ns, h, ns[self].function, x)
    IN  IF r.st # "ok" THEN Raise(r.h, r.st)
        ELSE Ret(r.h, "ok", QSub(r.q, ns[self].constant), 0)

\* SumScalarFunction.proximal(self, x, tau, out)
SumScalarFunction_proximal(ns, h, self, x, tau, out) ==
    Proximal(ns, h, ns[self].function, x, tau, out)

\* ConstantFunction.__call__(self, x)
ConstantFunction_call(ns, h, self, x) == Ret(h, "ok", ns[self].constant, 0)

\* ConstantFunction.gradient(self, x, out)
ConstantFunction_gradient(ns, h, self, x, out) ==
    IF out = 0 THEN New(h, QMul(h[x].val, I(0))) ELSE Fill(h, out, I(0))

\* ConstantFunction.convex_conjugate(self, x)
ConstantFunction_convex_conjugate(ns, h, self, x) ==
    Ret(h, "ok", QMax(h[x].val, I(0)), 0)

\* ConstantFunction.proximal(self, x, tau, out)
ConstantFunction_proximal(ns, h, self, x, tau, out) ==
    IF out = 0 THEN Copy(h, x) ELSE Fill(h, out, h[x].val)

\* the shift x - center at the head of TranslateFunction's operators: in place
\* (tmp is x) or, when the kernel raises TypeError, into a new vector
Shifted(ns, h, self, x) ==
    LET c == ns[self].center
        d == Into(h, x, QSub(h[x].val, h[c].val))
        n == New(h, QSub(h[x].val, h[c].val))
    IN  IF d.st = "ok" THEN [h |-> d.h, tmp |-> x] ELSE [h |-> n.h, tmp |-> n.id]

\* if id(tmp) == id(x): x.add(self.center, out = x)
Unshifted(ns, h, self, x, tmp) ==
    IF tmp = x THEN [h EXCEPT ![x].val = QAdd(@, h[ns[self].center].val)] ELSE h

\* TranslateFunction.__call__(self, x)
TranslateFunction_call(ns, h, self, x) ==
    LET s == Shifted(ns, h, self, x)
        r == Call(ns, s.h, ns[self].function, s.tmp)
    IN  IF r.st # "ok" THEN Raise(r.h, r.st)
        ELSE Ret(Unshifted(ns, r.h, self, x, s.tmp), "ok", r.q, 0)

\* TranslateFunction.gradient(self, x, out)
TranslateFunction_gradient(ns, h, self, x, out) ==
    LET s == Shifted(ns, h, self, x)
        r == Gradient(ns, s.h, ns[self].function, s.tmp, out)
    IN  IF r.st # "ok" THEN Raise(r.h, r.st)
        ELSE Ret(Unshifted(ns, r.h, self, x, s.tmp), "ok", None, r.id)

\* TranslateFunction.proximal(self, x, tau, out)
TranslateFunction_proximal(ns, h, self, x, tau, out) ==
    LET s   == Shifted(ns, h, self, x)
        r   == Proximal(ns, s.h, ns[self].function, s.tmp, tau, out)
        val == IF out = 0 THEN r.id ELSE out
        a   == Into(r.h, val, QAdd(r.h[val].val, r.h[ns[self].center].val))
    IN  IF r.st # "ok" THEN Raise(r.h, r.st)
        ELSE IF a.st # "ok" THEN a
        ELSE Ret(Unshifted(ns, a.h, self, x, s.tmp), "ok", None,
                 IF out = 0 THEN val ELSE 0)

\* TranslateFunction.convex_conjugate(self, x)
TranslateFunction_convex_conjugate(ns, h, self, x) ==
    LET r == ConvexConjugate(ns, h, ns[self].function, x)
    IN  IF r.st # "ok" THEN Raise(r.h, r.st)
        ELSE Ret(r.h, "ok", QAdd(r.q, QMul(r.h[ns[self].center].val, r.h[x].val)), 0)

Call(ns, h, i, x) ==
    CASE IsSumFunction(ns[i])      -> SumFunction_call(ns, h, i, x)
      [] ns[i].kind = "Scaled"     -> ScaledFunction_call(ns, h, i, x)
      [] IsConstantFunction(ns[i]) -> ConstantFunction_call(ns, h, i, x)
      [] ns[i].kind = "Translate"  -> TranslateFunction_call(ns, h, i, x)
      [] ns[i].kind = "Leaf"       -> Leaf_call(ns, h, i, x)
      [] OTHER                     -> Function_call(ns, h, i, x)

Gradient(ns, h, i, x, out) ==
    CASE IsSumFunction(ns[i])      -> SumFunction_gradient(ns, h, i, x, out)
      [] ns[i].kind = "Scaled"     -> ScaledFunction_gradient(ns, h, i, x, out)
      [] IsConstantFunction(ns[i]) -> ConstantFunction_gradient(ns, h, i, x, out)
      [] ns[i].kind = "Translate"  -> TranslateFunction_gradient(ns, h, i, x, out)
      [] ns[i].kind = "Leaf"       -> Leaf_gradient(ns, h, i, x, out)
      [] OTHER                     -> Function_gradient(ns, h, i, x, out)

Proximal(ns, h, i, x, tau, out) ==
    CASE ns[i].kind = "SumScalar"  -> SumScalarFunction_proximal(ns, h, i, x, tau, out)
      [] ns[i].kind = "Scaled"     -> ScaledFunction_proximal(ns, h, i, x, tau, out)
      [] IsConstantFunction(ns[i]) -> ConstantFunction_proximal(ns, h, i, x, tau, out)
      [] ns[i].kind = "Translate"  -> TranslateFunction_proximal(ns, h, i, x, tau, out)
      [] ns[i].kind = "Leaf"       -> Leaf_proximal(ns, h, i, x, tau, out)
      [] OTHER                     -> Function_proximal(ns, h, i, x, tau, out)

ConvexConjugate(ns, h, i, x) ==
    CASE ns[i].kind = "SumScalar"  -> SumScalarFunction_convex_conjugate(ns, h, i, x)
      [] ns[i].kind = "Scaled"     -> ScaledFunction_convex_conjugate(ns, h, i, x)
      [] IsConstantFunction(ns[i]) -> ConstantFunction_convex_conjugate(ns, h, i, x)
      [] ns[i].kind = "Translate"  -> TranslateFunction_convex_conjugate(ns, h, i, x)
      [] ns[i].kind = "Leaf"       -> Leaf_convex_conjugate(ns, h, i, x)
      [] OTHER                     -> Function_convex_conjugate(ns, h, i, x)

ProximalConjugate(ns, h, i, x, tau, out) ==
    IF ns[i].kind = "Scaled" THEN ScaledFunction_proximal_conjugate(ns, h, i, x, tau, out)
    ELSE Function_proximal_conjugate(ns, h, i, x, tau, out)

-----------------------------------------------------------------------------
(* The client.  last is the statement the client has just executed and     *)
(* what came of it (op = "none": it is between statements).  For an        *)
(* operator call: x is the center passed as the argument (0: a vector of   *)
(* the caller's own), xpre and xpost the argument's element before and     *)
(* after, pre the vectors before, out whether an output buffer was passed, *)
(* outpost its element after, retv the element of the vector returned, n   *)
(* the number of operator calls so far, nn the number of Function objects  *)
(* before the statement.                                                   *)

NoLast ==
    [op |-> "none", st |-> "ok", self |-> 0, other |-> ArgNone, fs |-> <<>>,
     ret |-> 0, val |-> None, x |-> 0, inplace |-> TRUE, tau |-> None,
     out |-> FALSE, xpre |-> None, xpost |-> None, outpost |-> None,
     retv |-> None, pre |-> <<>>, n |-> 0, nn |-> 0]

Did(op, self, other, fs, st, ret, val) ==
    [NoLast EXCEPT !.op = op, !.st = st, !.self = self, !.other = other, !.fs = fs,
                   !.ret = ret, !.val = val, !.n = last.n, !.nn = Len(nodes)]

Idle == last.op = "none"

\* the client goes on to its next statement
Continue ==
    /\ ~Idle
    /\ last' = [NoLast EXCEPT !.n = last.n]
    /\ UNCHANGED <<nodes, vecs, reader>>

\* the objects a client holds when it starts composing: a library leaf and a
\* ConstantFunction(5)
Leaves ==
    LET a == Leaf_init(<<>>)
        b == ConstantFunction_init(a.ns, ArgNum(I(5)))
    IN  b.ns

\* the vector the client uses as a center
Centers == <<[val |-> I(1), inplace |-> TRUE]>>

\* the heap may hold this many objects
MaxNodes == 4

Ids == 1..Len(nodes)

\* what may stand right of + and -: a Function, a number, or something else
Operands == {ArgNode(j) : j \in Ids} \cup {ArgNum(I(3)), ArgStr}

\* what may stand left of + and next to *: a number or something else
Scalars == {ArgNum(I(2)), ArgStr}

\* a builder's outcome becomes the state: objects created stay only if it returned
Builds(op, self, other, fs, r) ==
    /\ Idle
    /\ Len(r.ns) <= MaxNodes
    /\ nodes' = IF r.st = "ok" THEN r.ns ELSE nodes
    /\ last' = Did(op, self, other, fs, r.st, r.ret, None)
    /\ UNCHANGED <<vecs, reader>>

\* ZeroFunction()
NewZero == Builds("ZeroFunction", 0, ArgNone, <<>>, ZeroFunction_init(nodes))

\* self + other
Add(i, o) == Builds("add", i, o, <<>>, Plus(nodes, i, o))

\* other + self, other not a Function
RAdd(o, i) == Builds("radd", i, o, <<>>, Function_radd(nodes, i, o))

\* self - other
Sub(i, o) == Builds("sub", i, o, <<>>, Function_sub(nodes, i, o))

\* self * scalar
Mul(i, k) == Builds("mul", i, k, <<>>, Function_mul(nodes, i, k))

\* scalar * self
RMul(k, i) == Builds("rmul", i, k, <<>>, RTimes(nodes, i, k))

\* self.centered_at(center)
CenteredAt(i, c) ==
    Builds("centered_at", i, IF c = 0 THEN ArgNone ELSE ArgNum(I(c)), <<>>,
           Function_centered_at(nodes, i, c))

\* SumFunction(*fs)
NewSum(fs) == Builds("SumFunction", 0, ArgNone, fs, SumFunction_init(nodes, fs))

\* SumScalarFunction(function, constant)
NewSumScalar(i, c) ==
    Builds("SumScalarFunction", i, c, <<>>, SumScalarFunction_init(nodes, i, c))

\* the argument lists SumFunction(...) is called with: none, one, two or three functions
SumArgs ==
    {<<>>} \cup {<<i>> : i \in Ids} \cup {<<i, j>> : i, j \in Ids}
           \cup {<<i, i, j>> : i, j \in Ids}

AlgebraInit ==
    /\ nodes = Leaves
    /\ vecs = Centers
    /\ last = NoLast
    /\ reader = NoReader

AlgebraNext ==
    \/ NewZero
    \/ \E i \in Ids, o \in Operands : Add(i, o)
    \/ \E i \in Ids, o \in Scalars : RAdd(o, i)
    \/ \E i \in Ids, o \in Operands : Sub(i, o)
    \/ \E i \in Ids, k \in Scalars : Mul(i, k)
    \/ \E i \in Ids, k \in Scalars : RMul(k, i)
    \/ \E i \in Ids, c \in 0..Len(vecs) : CenteredAt(i, c)
    \/ \E fs \in SumArgs : NewSum(fs)
    \/ \E i \in Ids, c \in Scalars : NewSumScalar(i, c)
    \/ Continue

\* the client composing functions
SpecAlgebra == AlgebraInit /\ [][AlgebraNext]_vars

-----------------------------------------------------------------------------
(* The client reading and assigning Lipschitz constants while composing.   *)

\* values assigned to L: two the setter takes, and a negative number, None and a
\* string, which it refuses
LValues == {ArgNum(I(3)), ArgNum(I(0)), ArgNum(I(-1)), ArgNone, ArgStr}

\* f.L = value
AssignL(i, value) ==
    LET r == SetL(nodes, i, value)
    IN  /\ Idle
        /\ nodes' = r.ns
        /\ last' = Did("setL", i, value, <<>>, r.st, 0, None)
        /\ UNCHANGED <<vecs, reader>>

\* f.L
ReadL(i) ==
    LET r == GetL(nodes, i)
    IN  /\ Idle
        /\ nodes' = r.ns
        /\ last' = Did("L", i, ArgNone, <<>>, r.st, 0, r.val)
        /\ UNCHANGED <<vecs, reader>>

\* f.Lmax
ReadLmax(i) ==
    LET r == GetLmax(nodes, i)
    IN  /\ Idle
        /\ nodes' = r.ns
        /\ last' = Did("Lmax", i, ArgNone, <<>>, r.st, 0, r.val)
        /\ UNCHANGED <<vecs, reader>>

\* the object at the start: a Function() that knows no L yet
LipschitzLeaves == Function_init(<<>>).ns

\* the heap may hold this many objects while Lipschitz constants are followed
MaxLipNodes == 3

LipschitzInit ==
    /\ nodes = LipschitzLeaves
    /\ vecs = Centers
    /\ last = NoLast
    /\ reader = NoReader

\* the client goes on composing from the object it built last
LipschitzNext ==
    \/ \E o \in {ArgNode(j) : j \in Ids} \cup {ArgNum(I(3))} :
          Add(Len(nodes), o) /\ Len(nodes') <= MaxLipNodes
    \/ RMul(ArgNum(I(-2)), Len(nodes)) /\ Len(nodes') <= MaxLipNodes
    \/ CenteredAt(Len(nodes), 1) /\ Len(nodes') <= MaxLipNodes
    \/ \E i \in Ids, v \in LValues : AssignL(i, v)
    \/ \E i \in Ids : ReadL(i)
    \/ Continue

SpecLipschitz == LipschitzInit /\ [][LipschitzNext]_vars

\* the same client also reading Lmax
LmaxNext ==
    \/ LipschitzNext
    \/ \E i \in Ids : ReadLmax(i)

SpecLmax == LipschitzInit /\ [][LmaxNext]_vars

-----------------------------------------------------------------------------
(* Properties of the builders, checked under SpecAlgebra.                  *)

\* the arguments the properties evaluate a function at
XVals == {I(2), I(-3)}

\* f(x) for a vector x of the caller's own holding v
ValueAt(i, v) ==
    Call(nodes, Append(vecs, [val |-> v, inplace |-> TRUE]), i, Len(vecs) + 1)

Plain(i) == ~IsSumFunction(nodes[i])

\* i is the Sum of two plain functions
PlainPair(i) ==
    /\ nodes[i].kind = "Sum"
    /\ Len(nodes[i].functions) = 2
    /\ \A k \in 1..2 : Plain(nodes[i].functions[k])

\* node r is the flat Sum of the functions fs and evaluates to their sum
FlatSumOf(r, fs) ==
    /\ r # 0
    /\ nodes[r].kind = "Sum"
    /\ nodes[r].functions = fs
    /\ \A v \in XVals :
          /\ ValueAt(r, v).st = "ok"
          /\ ValueAt(r, v).q =
                QAdd(QAdd(ValueAt(fs[1], v).q, ValueAt(fs[2], v).q), ValueAt(fs[3], v).q)

\* the client has just evaluated (f + g) + h for plain f, g, h
AddedPlainToPair ==
    /\ last.op = "add" /\ last.other.t = "node"
    /\ PlainPair(last.self) /\ Plain(last.other.n)

\* the client has just evaluated f + (g + h) for plain f, g, h
AddedPairToPlain ==
    /\ last.op = "add" /\ last.other.t = "node"
    /\ Plain(last.self) /\ PlainPair(last.other.n)

\* C1: for plain f, g, h both (f + g) + h and f + (g + h) are a Sum whose children
\* are exactly <<f, g, h>>, no Sum inside a Sum, and evaluate to f(x) + g(x) + h(x)
C1_AssociativeFlattening ==
    /\ AddedPlainToPair =>
          FlatSumOf(last.ret, Append(nodes[last.self].functions, last.other.n))
    /\ AddedPairToPlain =>
          FlatSumOf(last.ret, <<last.self>> \o nodes[last.other.n].functions)

\* the half of C1 the code keeps: (f + g) + h is flat
LeftFlattening ==
    AddedPlainToPair =>
        FlatSumOf(last.ret, Append(nodes[last.self].functions, last.other.n))

\* the client has just evaluated self + other or other + self
Added == last.op \in {"add", "radd"}

\* the statement made no object
MadeNothing == last.st # "ok" /\ last.ret = 0 /\ Len(nodes) = last.nn

\* node r is SumScalarFunction(f, c): function f, constant c, second child a
\* ConstantFunction holding c
IsSumScalarOf(r, f, c) ==
    /\ r # 0
    /\ nodes[r].kind = "SumScalar"
    /\ nodes[r].function = f
    /\ nodes[r].constant = c
    /\ Len(nodes[r].functions) = 2
    /\ nodes[r].functions[1] = f
    /\ nodes[nodes[r].functions[2]].kind = "Constant"
    /\ nodes[nodes[r].functions[2]].constant = c

\* C2 as the specification words it: F + G is a Sum for a Function G that is no
\* constant; F + n and F + C (C a ConstantFunction or ZeroFunction) are
\* SumScalar(F, n) and SumScalar(F, C.constant); any other operand fails and makes
\* no object
C2_AddDispatchAsClaimed ==
    Added =>
        CASE last.other.t = "node" /\ IsConstantFunction(nodes[last.other.n]) ->
                /\ last.st = "ok"
                /\ IsSumScalarOf(last.ret, last.self, nodes[last.other.n].constant)
          [] last.other.t = "node" ->
                last.st = "ok" /\ last.ret # 0 /\ nodes[last.ret].kind = "Sum"
          [] last.other.t = "num" ->
                last.st = "ok" /\ IsSumScalarOf(last.ret, last.self, last.other.q)
          [] OTHER -> MadeNothing

\* C2 amended: F + G is a Sum ending in G for every Function G, a ConstantFunction
\* or ZeroFunction included; F + n is SumScalar(F, n) for a number n; any other
\* operand fails and makes no object
C2_AddDispatch ==
    Added =>
        CASE last.other.t = "node" ->
                /\ last.st = "ok" /\ last.ret # 0
                /\ nodes[last.ret].kind = "Sum"
                /\ LET fs == nodes[last.ret].functions
                   IN  IF IsSumFunction(nodes[last.other.n])
                       THEN TRUE
                       ELSE fs[Len(fs)] = last.other.n
                /\ Plain(last.self) => nodes[last.ret].functions = <<last.self, last.other.n>>
          [] last.other.t = "num" ->
                last.st = "ok" /\ IsSumScalarOf(last.ret, last.self, last.other.q)
          [] OTHER -> MadeNothing

\* the client has just added a ConstantFunction or ZeroFunction to a function
C2_AddedConstant ==
    /\ Added /\ last.st = "ok"
    /\ last.other.t = "node"
    /\ IsConstantFunction(nodes[last.other.n])

\* C10: every Sum has at least 2 children; SumFunction() of fewer than 2 functions
\* fails and makes no object; a SumScalar has exactly 2 children, its function and a
\* ConstantFunction holding its constant
C10_SumArity ==
    /\ \A i \in Ids :
          /\ IsSumFunction(nodes[i]) => Len(nodes[i].functions) >= 2
          /\ nodes[i].kind = "SumScalar" =>
                IsSumScalarOf(i, nodes[i].function, nodes[i].constant)
    /\ last.op = "SumFunction" =>
          IF Len(last.fs) < 2 THEN MadeNothing /\ last.st = "ValueError"
          ELSE last.st = "ok" /\ nodes[last.ret].functions = last.fs

\* SumFunction(f) has just failed in a heap that holds a SumScalar
C10_RefusedOneChild ==
    /\ last.op = "SumFunction" /\ Len(last.fs) = 1 /\ last.st = "ValueError"
    /\ \E i \in Ids : nodes[i].kind = "SumScalar"

-----------------------------------------------------------------------------
(* Properties of the Lipschitz constants, checked under SpecLipschitz and   *)
(* (Lmax) SpecLmax.                                                        *)

\* what reading f.L gives now
CurrentL(i) == GetL(nodes, i).val

\* the sum of the values now read at fs, None when one of them is None
RECURSIVE SumOfCurrentL(_)
SumOfCurrentL(fs) ==
    IF fs = <<>> THEN I(0)
    ELSE LET rest == SumOfCurrentL(Tail(fs))
         IN  IF IsNone(CurrentL(Head(fs))) \/ IsNone(rest) THEN None
             ELSE QAdd(CurrentL(Head(fs)), rest)

\* the largest of the values now read at fs, None when one of them is None
RECURSIVE MaxOfCurrentL(_)
MaxOfCurrentL(fs) ==
    IF Len(fs) = 1 THEN CurrentL(fs[1])
    ELSE LET rest == MaxOfCurrentL(Tail(fs))
         IN  IF IsNone(CurrentL(Head(fs))) \/ IsNone(rest) THEN None
             ELSE QMax(CurrentL(Head(fs)), rest)

\* the client has just read property p of an object of kind k
HasRead(p, k) == last.op = p /\ last.self # 0 /\ nodes[last.self].kind = k

\* C6: every read of L on a Sum returns the sum of its children's current L, None
\* when a child's L is None, whatever was assigned before to the children or to
\* the Sum itself
C6_SumLRecomputed ==
    /\ HasRead("L", "Sum") =>
          /\ last.st = "ok"
          /\ last.val = SumOfCurrentL(nodes[last.self].functions)
    /\ \A i \in Ids : nodes[i].kind = "Sum" =>
          CurrentL(i) = SumOfCurrentL(nodes[i].functions)

\* a Sum whose L was assigned (only 0 and 3 are ever assigned) has just been read
\* as 6, the sum of its children's L
C6_ReadAfterAssignment ==
    /\ HasRead("L", "Sum")
    /\ nodes[last.self].assigned
    /\ last.val = I(6)

\* C7: Lmax of a Sum is returned as a value: the maximum of its children's L, None
\* when a child's L is None
C7_LmaxNonePropagates ==
    HasRead("Lmax", "Sum") =>
        /\ last.st = "ok"
        /\ last.val = MaxOfCurrentL(nodes[last.self].functions)

\* the half of C7 the code keeps: with every child's L defined, Lmax is their
\* maximum
LmaxOfDefined ==
    HasRead("Lmax", "Sum") /\ ~IsNone(MaxOfCurrentL(nodes[last.self].functions)) =>
        /\ last.st = "ok"
        /\ last.val = MaxOfCurrentL(nodes[last.self].functions)

\* C8: a read of L on ScaledFunction(F, a) returns |a| * F.L and on
\* SumScalarFunction(F, c) returns F.L, None when F.L is None, from F's L at the
\* time of the read (stated for objects whose own L was never assigned)
C8_DerivedLIsLive ==
    /\ HasRead("L", "Scaled") /\ ~nodes[last.self].assigned =>
          last.val = IF IsNone(CurrentL(nodes[last.self].function)) THEN None
                     ELSE QMul(QAbs(nodes[last.self].scalar),
                               CurrentL(nodes[last.self].function))
    /\ HasRead("L", "SumScalar") /\ ~nodes[last.self].assigned =>
          /\ last.val = CurrentL(nodes[last.self].function)
          /\ last.val = SumOfCurrentL(nodes[last.self].functions)

\* the half of C8 about SumScalar alone, which the code breaks as well
SumScalarLIsLive ==
    HasRead("L", "SumScalar") /\ ~nodes[last.self].assigned =>
        last.val = CurrentL(nodes[last.self].function)

\* f.L = value has just succeeded on object i
Assigned(i) == last.op = "setL" /\ last.st = "ok" /\ last.self = i

\* what C9 says of one state: a TranslateFunction just built holds the L read at
\* its function, and a read of L on a TranslateFunction returns the L it holds
SnapshotTaken ==
    /\ /\ last.op = "centered_at" /\ last.st = "ok"
       /\ last.ret > last.nn
       => /\ nodes[last.ret].kind = "Translate"
          /\ nodes[last.ret].L = CurrentL(last.self)
    /\ HasRead("L", "Translate") =>
          last.st = "ok" /\ last.val = nodes[last.self].L

\* what C9 says of one step: the L a TranslateFunction holds changes only by an
\* assignment to that object
SnapshotKept ==
    \A i \in Ids : nodes[i].kind = "Translate" /\ ~Assigned(i)' =>
        nodes'[i].L = nodes[i].L

\* C9: TranslateFunction.L is the L of the wrapped function as read at
\* construction and keeps that value when the wrapped function's L changes, until
\* L is assigned on the TranslateFunction itself
C9_TranslateLSnapshot == []SnapshotTaken /\ [][SnapshotKept]_vars

\* L has just been read on a TranslateFunction never assigned to, and the value
\* differs from what the wrapped function's L is now
C9_ReadStaleSnapshot ==
    /\ HasRead("L", "Translate")
    /\ ~nodes[last.self].assigned
    /\ last.val # CurrentL(nodes[last.self].function)

-----------------------------------------------------------------------------
(* The client calling the operators of a tree it has built.  The tree is   *)
(* built before the first call; its root is the object built last.         *)

\* the trees are this many builder calls deep
MaxDepth == 2

\* the client makes this many operator calls
MaxCalls == 2

\* what the builders start from: Function(), a library leaf, ConstantFunction(5),
\* SumFunction(leaf, ConstantFunction(5)), and SumFunction of a leaf and a Function()
\* (which supports no operator) in the first, the last and the middle place
Bases ==
    { Function_init(<<>>).ns,
      Leaf_init(<<>>).ns,
      ConstantFunction_init(<<>>, ArgNum(I(5))).ns,
      SumFunction_init(Leaves, <<1, 2>>).ns }
      \cup {SumFunction_init(Leaf_init(Function_init(<<>>).ns).ns, fs).ns :
               fs \in {<<1, 2>>, <<2, 1>>, <<2, 1, 2>>}}

\* root.centered_at(center), 2 * root, root + 3, root + the first object
Wrapped(ns) ==
    { Function_centered_at(ns, Len(ns), 1).ns,
      RTimes(ns, Len(ns), ArgNum(I(2))).ns,
      Plus(ns, Len(ns), ArgNum(I(3))).ns,
      Plus(ns, Len(ns), ArgNode(1)).ns }

RECURSIVE Trees(_)
Trees(d) ==
    IF d = 0 THEN Bases
    ELSE Trees(d - 1) \cup UNION {Wrapped(ns) : ns \in Trees(d - 1)}

Root == Len(nodes)

\* the step sizes passed as tau
Taus == {I(2), Q(1, 2)}

\* the argument x of a call: the center of the tree itself (x = 1) or a vector of the
\* caller's own (x = 0), of floats (inplace) or of integers
Xs ==
    {[x |-> 1, val |-> vecs[1].val, inplace |-> vecs[1].inplace]}
      \cup {[x |-> 0, val |-> v, inplace |-> b] : v \in XVals, b \in BOOLEAN}

\* the vectors during a call: the client's, then x when it is the caller's own, then
\* the output buffer when one is passed
HeapFor(a, out) ==
    vecs \o (IF a.x = 0 THEN <<[val |-> a.val, inplace |-> a.inplace]>> ELSE <<>>)
         \o (IF out THEN <<[val |-> I(0), inplace |-> TRUE]>> ELSE <<>>)

XId(a) == IF a.x = 0 THEN Len(vecs) + 1 ELSE a.x

OutId(a, out) == IF out THEN Len(HeapFor(a, out)) ELSE 0

\* an operator's outcome r becomes the state
Called(op, a, tau, out, r) ==
    /\ Idle
    /\ last.n < MaxCalls
    /\ vecs' = SubSeq(r.h, 1, Len(vecs))
    /\ last' = [NoLast EXCEPT !.op = op, !.st = r.st, !.self = Root, !.val = r.q,
                              !.x = a.x, !.inplace = a.inplace, !.tau = tau,
                              !.out = out, !.xpre = a.val,
                              !.xpost = r.h[XId(a)].val,
                              !.outpost = IF out THEN r.h[OutId(a, out)].val ELSE None,
                              !.retv = IF r.id # 0 THEN r.h[r.id].val ELSE None,
                              !.pre = vecs, !.n = last.n + 1, !.nn = Len(nodes)]
    /\ UNCHANGED <<nodes, reader>>

\* root(x)
OpCall(a) ==
    Called("call", a, None, FALSE, Call(nodes, HeapFor(a, FALSE), Root, XId(a)))

\* root.gradient(x, out)
OpGradient(a, out) ==
    Called("gradient", a, None, out,
           Gradient(nodes, HeapFor(a, out), Root, XId(a), OutId(a, out)))

\* root.proximal(x, tau, out)
OpProximal(a, tau, out) ==
    Called("proximal", a, tau, out,
           Proximal(nodes, HeapFor(a, out), Root, XId(a), tau, OutId(a, out)))

\* root.convex_conjugate(x)
OpConvexConjugate(a) ==
    Called("convex_conjugate", a, None, FALSE,
           ConvexConjugate(nodes, HeapFor(a, FALSE), Root, XId(a)))

\* root.proximal_conjugate(x, tau, out)
OpProximalConjugate(a, tau, out) ==
    Called("proximal_conjugate", a, tau, out,
           ProximalConjugate(nodes, HeapFor(a, out), Root, XId(a), tau, OutId(a, out)))

CallsInit ==
    /\ nodes \in Trees(MaxDepth)
    /\ vecs = Centers
    /\ last = NoLast
    /\ reader = NoReader

CallsNext ==
    \/ \E a \in Xs : OpCall(a)
    \/ \E a \in Xs, out \in BOOLEAN : OpGradient(a, out)
    \/ \E a \in Xs, tau \in Taus, out \in BOOLEAN : OpProximal(a, tau, out)
    \/ \E a \in Xs : OpConvexConjugate(a)
    \/ \E a \in Xs, tau \in Taus, out \in BOOLEAN : OpProximalConjugate(a, tau, out)
    \/ Continue

SpecCalls == CallsInit /\ [][CallsNext]_vars

-----------------------------------------------------------------------------
(* Properties of the operator calls, checked under SpecCalls.              *)

HasCalled(op) == last.op = op

Returned == last.st = "ok"

\* the vector an operator hands back: the output buffer when one was passed, else
\* the vector returned
Result == IF last.out THEN last.outpost ELSE last.retv

\* tau * root.proximal(x / tau, 1 / tau) for the x and tau of the call just made,
\* computed apart from it on the vectors as they were before the call
MoreauTerm ==
    LET h == Append(last.pre, [val |-> QDiv(last.xpre, last.tau), inplace |-> TRUE])
        r == Proximal(nodes, h, last.self, Len(h), QDiv(I(1), last.tau), 0)
    IN  IF r.st = "ok" THEN QMul(last.tau, r.h[r.id].val) ELSE None

\* root implements proximal
ImplementsProximal == ~IsNone(MoreauTerm)

\* C3: for every node F that implements proximal, every x and tau > 0,
\* F.proximal_conjugate(x, tau) + tau * F.proximal(x / tau, 1 / tau) = x, on the
\* in-place and on the allocating path, with and without an output buffer
C3_MoreauIdentity ==
    HasCalled("proximal_conjugate") /\ ImplementsProximal =>
        /\ Returned
        /\ QAdd(Result, MoreauTerm) = last.xpre

\* C3 for an x that is a vector of the caller's own, which the code keeps
MoreauIdentityOwnVector ==
    HasCalled("proximal_conjugate") /\ ImplementsProximal /\ last.x = 0 =>
        /\ Returned
        /\ QAdd(Result, MoreauTerm) = last.xpre

\* the call just made is of an operator that uses x as scratch: proximal_conjugate,
\* ScaledFunction.convex_conjugate, TranslateFunction's evaluate, gradient, proximal
UsesScratch ==
    \/ HasCalled("proximal_conjugate")
    \/ HasCalled("convex_conjugate") /\ nodes[last.self].kind = "Scaled"
    \/ last.op \in {"call", "gradient", "proximal"}
          /\ nodes[last.self].kind = "Translate"

\* C4: after one of these operators has returned, the output buffer absent or a
\* vector other than x, x holds the value it held before the call
C4_InputPreserved ==
    UsesScratch /\ Returned => last.xpost = last.xpre

\* C4 for an x that is a vector of the caller's own, which the code keeps
InputPreservedOwnVector ==
    UsesScratch /\ Returned /\ last.x = 0 => last.xpost = last.xpre

\* C5: when one of these operators fails because an operator of the wrapped function
\* is unsupported, the caller gets that failure and x holds its original value
C5_InputPreservedOnFailure ==
    UsesScratch /\ ~Returned =>
        /\ last.st = "NotImplementedError"
        /\ last.xpost = last.xpre

\* the half of C5 the code keeps: the failure reaches the caller as it was raised
FailurePropagates ==
    UsesScratch /\ ~Returned => last.st = "NotImplementedError"

-----------------------------------------------------------------------------
(* Further properties of the Lipschitz constants, under SpecLipschitz.     *)

\* value is a non-negative real number
NonNegative(value) == IsNumber(value) /\ QLe(I(0), value.q)

\* what C11 says of one step that is f.L = value on object i, no ConstantFunction:
\* a non-negative number is stored, anything else fails and leaves every object
\* as it was
AssignmentGuarded(i) ==
    last'.op = "setL" /\ last'.self = i /\ ~IsConstantFunction(nodes[i]) =>
        IF NonNegative(last'.other)
        THEN last'.st = "ok" /\ nodes'[i].L = last'.other.q
        ELSE last'.st # "ok" /\ nodes' = nodes

\* C11: assigning L on a node (base, Sum, Scaled, SumScalar, Translate) succeeds
\* only for a non-negative number; a negative number, None or a non-number fails
\* and leaves the stored Lipschitz value as it was
C11_LAssignmentGuarded == [][\A i \in Ids : AssignmentGuarded(i)]_vars

\* None has just been refused as the L of a composite that holds a defined L
C11_RefusedNone ==
    /\ last.op = "setL" /\ last.st = "TypeError"
    /\ last.other = ArgNone
    /\ nodes[last.self].kind \in {"Sum", "Scaled", "SumScalar", "Translate"}
    /\ ~IsNone(nodes[last.self].L)

-----------------------------------------------------------------------------
(* The client composing constants and reading and assigning their L.       *)

ConstantsInit ==
    /\ nodes = ConstantFunction_init(<<>>, ArgNum(I(5))).ns
    /\ vecs = Centers
    /\ last = NoLast
    /\ reader = NoReader

ConstantsNext ==
    \/ NewZero /\ Len(nodes') <= MaxLipNodes
    \/ \E i \in Ids : RMul(ArgNum(I(2)), i) /\ Len(nodes') <= MaxLipNodes
    \/ \E i \in Ids : Mul(i, ArgNum(I(2))) /\ Len(nodes') <= MaxLipNodes
    \/ \E i \in Ids : Add(i, ArgNum(I(3))) /\ Len(nodes') <= MaxLipNodes
    \/ \E i \in Ids, v \in LValues : AssignL(i, v)
    \/ \E i \in Ids : ReadL(i)
    \/ Continue

SpecConstants == ConstantsInit /\ [][ConstantsNext]_vars

\* C12: in every reachable state, reading L on a ConstantFunction or ZeroFunction
\* (also one made by number * ConstantFunction, also the constant inside a
\* SumScalarFunction) returns exactly 0, whatever was assigned or tried before
C12_ConstantLIsZero ==
    /\ \A i \in Ids : IsConstantFunction(nodes[i]) =>
          GetL(nodes, i).st = "ok" /\ GetL(nodes, i).val = I(0)
    /\ last.op = "L" /\ IsConstantFunction(nodes[last.self]) =>
          last.st = "ok" /\ last.val = I(0)
    /\ last.op = "setL" /\ IsConstantFunction(nodes[last.self]) => last.st # "ok"

\* L has just been read as 0 on the ConstantFunction that 2 * ConstantFunction(5)
\* made
C12_ReadProductL ==
    /\ last.op = "L" /\ last.val = I(0)
    /\ nodes[last.self].kind = "Constant"
    /\ nodes[last.self].constant = I(10)

-----------------------------------------------------------------------------
(* Further properties of the operator calls, under SpecCalls.              *)

\* the vectors as the call just made found them: the client's, x, the output buffer
HeapBefore ==
    last.pre \o (IF last.x = 0 THEN <<[val |-> last.xpre, inplace |-> last.inplace]>>
                 ELSE <<>>)
             \o (IF last.out THEN <<[val |-> I(0), inplace |-> TRUE]>> ELSE <<>>)

\* x in HeapBefore
XBefore == IF last.x = 0 THEN Len(last.pre) + 1 ELSE last.x

\* the output buffer in HeapBefore, 0 when none was passed
OutBefore == IF last.out THEN Len(HeapBefore) ELSE 0

\* the client evaluating fs[k..] one after the other at x and adding up: the sum, or
\* the first failure
RECURSIVE ChildrenCalled(_, _, _, _)
ChildrenCalled(h, fs, k, x) ==
    IF k > Len(fs) THEN [st |-> "ok", v |-> I(0)]
    ELSE LET r    == Call(nodes, h, fs[k], x)
             rest == ChildrenCalled(r.h, fs, k + 1, x)
         IN  IF r.st # "ok" THEN [st |-> r.st, v |-> None]
             ELSE IF rest.st # "ok" THEN rest
             ELSE [st |-> "ok", v |-> QAdd(r.q, rest.v)]

\* the same with the gradients, each returned as a new vector
RECURSIVE ChildrenGradients(_, _, _, _)
ChildrenGradients(h, fs, k, x) ==
    IF k > Len(fs) THEN [st |-> "ok", v |-> I(0)]
    ELSE LET r    == Gradient(nodes, h, fs[k], x, 0)
             rest == ChildrenGradients(r.h, fs, k + 1, x)
         IN  IF r.st # "ok" THEN [st |-> r.st, v |-> None]
             ELSE IF rest.st # "ok" THEN rest
             ELSE [st |-> "ok", v |-> QAdd(r.h[r.id].val, rest.v)]

\* the call just made failed and handed nothing back
FailedWith(st) == last.st = st /\ IsNone(last.val) /\ IsNone(last.retv)

\* C13: Sum.evaluate(x) and Sum.gradient(x, out?) give the sum over the children,
\* in child order, of the child's evaluate resp. gradient; if a child's operator is
\* unsupported the call fails with that failure and returns no partial sum,
\* wherever the failing child stands, with or without an output buffer
C13_SumPropagatesFailure ==
    /\ HasCalled("call") /\ IsSumFunction(nodes[last.self]) =>
          LET c == ChildrenCalled(HeapBefore, nodes[last.self].functions, 1, XBefore)
          IN  IF c.st = "ok" THEN Returned /\ last.val = c.v
              ELSE c.st = "NotImplementedError" /\ FailedWith(c.st)
    /\ HasCalled("gradient") /\ IsSumFunction(nodes[last.self]) =>
          LET c == ChildrenGradients(HeapBefore, nodes[last.self].functions, 1, XBefore)
          IN  IF c.st = "ok" THEN Returned /\ Result = c.v
              ELSE c.st = "NotImplementedError" /\ FailedWith(c.st)

\* evaluate has just failed on SumFunction(leaf, Function(), leaf), the middle child
\* being the one that supports nothing
C13_MiddleChildFailed ==
    /\ HasCalled("call") /\ nodes[last.self].kind = "Sum"
    /\ Len(nodes[last.self].functions) = 3
    /\ nodes[nodes[last.self].functions[2]].kind = "Function"
    /\ FailedWith("NotImplementedError")


\* the vector an operator's outcome r hands back when called with output buffer out
ResultOf(r, out) == IF out # 0 THEN r.h[out].val ELSE r.h[r.id].val

\* C14: proximal and convex_conjugate fail as unsupported on a generic Sum, also on
\* the Sum that SumScalar(f, c) + g is; on SumScalar(f, c), proximal(x, tau, out?)
\* is f.proximal(x, tau, out?) whatever c is and convex_conjugate(x) is
\* f.convex_conjugate(x) - c
C14_SumScalarClosedForms ==
    /\ last.op \in {"proximal", "convex_conjugate"} /\ nodes[last.self].kind = "Sum" =>
          FailedWith("NotImplementedError")
    /\ HasCalled("proximal") /\ nodes[last.self].kind = "SumScalar" =>
          LET r == Proximal(nodes, HeapBefore, nodes[last.self].function, XBefore,
                            last.tau, OutBefore)
          IN  /\ last.st = r.st
              /\ Returned => Result = ResultOf(r, OutBefore)
    /\ HasCalled("convex_conjugate") /\ nodes[last.self].kind = "SumScalar" =>
          LET r == ConvexConjugate(nodes, HeapBefore, nodes[last.self].function, XBefore)
          IN  /\ last.st = r.st
              /\ Returned => last.val = QSub(r.q, nodes[last.self].constant)

\* convex_conjugate has just returned on a SumScalarFunction
C14_ConjugateOfSumScalar ==
    /\ HasCalled("convex_conjugate") /\ Returned
    /\ nodes[last.self].kind = "SumScalar"

\* proximal has just failed on the Sum of three that a SumScalarFunction plus a
\* function is
SumScalarExtended ==
    /\ HasCalled("proximal") /\ FailedWith("NotImplementedError")
    /\ nodes[last.self].kind = "Sum"
    /\ Len(nodes[last.self].functions) = 3
    /\ nodes[nodes[last.self].functions[2]].kind = "Constant"

-----------------------------------------------------------------------------
(* Further properties of the builders, under SpecAlgebra.                  *)

\* the client has just evaluated self * other or other * self
Multiplied == last.op \in {"mul", "rmul"}

\* what C15 says of the state after a multiplication: by a number, a
\* ConstantFunction(c) gives a new ConstantFunction that evaluates to k * c
\* everywhere, any other object a ScaledFunction of it; by anything else it fails
ProductBuilt ==
    Multiplied =>
        IF ~IsNumber(last.other) THEN MadeNothing
        ELSE /\ last.st = "ok"
             /\ last.ret = last.nn + 1 /\ last.ret = Len(nodes)
             /\ IF IsConstantFunction(nodes[last.self])
                THEN /\ nodes[last.ret].kind = "Constant"
                     /\ \A v \in XVals :
                           /\ ValueAt(last.ret, v).st = "ok"
                           /\ ValueAt(last.ret, v).q =
                                 QMul(last.other.q, ValueAt(last.self, v).q)
                ELSE /\ nodes[last.ret].kind = "Scaled"
                     /\ nodes[last.ret].function = last.self
                     /\ nodes[last.ret].scalar = last.other.q

\* what C15 says of the step: the objects there were stay as they were
OperandsKept == Multiplied' => SubSeq(nodes', 1, Len(nodes)) = nodes

\* C15: k * C and C * k for a ConstantFunction C and a number k give a
\* ConstantFunction (no ScaledFunction) that evaluates to k * c, C keeping its
\* constant; any other node times a number gives a ScaledFunction of it with that
\* scalar; a multiplier that is no number fails and no object is made
C15_ConstantTimesNumber == []ProductBuilt /\ [][OperandsKept]_vars

\* ConstantFunction(5) * 2 has just given a ConstantFunction holding 10
C15_DoubledConstant ==
    /\ last.op = "mul" /\ last.st = "ok"
    /\ nodes[last.self].kind = "Constant" /\ nodes[last.self].constant = I(5)
    /\ nodes[last.ret].kind = "Constant" /\ nodes[last.ret].constant = I(10)

-----------------------------------------------------------------------------
(* ZEISSDataReader: the region of interest.  The argument roi is None or a *)
(* dictionary, here the sequence of its items in key order; an item's      *)
(* value is -1 or a tuple of numbers and None.                             *)

ElemNone == [none |-> TRUE, v |-> 0]
Elem(x) == [none |-> FALSE, v |-> x]

Whole == [whole |-> TRUE, t |-> <<>>]
Tuple(t) == [whole |-> FALSE, t |-> t]

NoRoi == [none |-> TRUE, items |-> <<>>]
Dict(items) == [none |-> FALSE, items |-> items]

\* ZEISSDataReader.full_roi: [0, length, 1] for each of the three axes of the file
full_roi(rd) == [k \in 1..3 |-> <<0, rd.shape[k], 1>>]

\* DataOrder.CIL_AG_LABELS for a txrm file, DataOrder.CIL_IG_LABELS for a txm file
allowed_labels(file_type) ==
    IF file_type = "txrm" THEN {"channel", "angle", "vertical", "horizontal"}
    ELSE {"channel", "vertical", "horizontal_y", "horizontal_x"}

\* zeis_data_order: the axis of the file a label stands for (1..3), 0 for a label
\* that is no key of it
zeis_data_order(file_type, key) ==
    IF file_type = "txrm"
    THEN CASE key = "angle" -> 1 [] key = "vertical" -> 2 [] key = "horizontal" -> 3
           [] OTHER -> 0
    ELSE CASE key = "vertical" -> 1 [] key = "horizontal_y" -> 2
           [] key = "horizontal_x" -> 3 [] OTHER -> 0

\* the loop of set_roi over enumerate(roi[key]) from the i-th element on (i = 1 is
\* start, 2 is end, 3 is step)
RECURSIVE set_roi_elements(_, _, _, _)
set_roi_elements(roi_tmp, idx, t, i) ==
    IF i > Len(t) THEN roi_tmp
    ELSE LET x == t[i]
         IN  IF x.none THEN set_roi_elements(roi_tmp, idx, t, i + 1)
             ELSE IF i # 3
             THEN set_roi_elements(
                      [roi_tmp EXCEPT ![idx][i] =
                          IF x.v >= 0 THEN x.v ELSE roi_tmp[idx][2] - x.v],
                      idx, t, i + 1)
             ELSE set_roi_elements(
                      [roi_tmp EXCEPT ![idx][i] = IF x.v > 0 THEN x.v ELSE 1],
                      idx, t, i + 1)

\* the loop of set_roi over roi.keys() from the k-th key on
RECURSIVE set_roi_keys(_, _, _, _)
set_roi_keys(rd, roi_tmp, items, k) ==
    IF k > Len(items) THEN [st |-> "ok", roi |-> roi_tmp]
    ELSE LET key == items[k].key
             idx == zeis_data_order(rd.file_type, key)
         IN  IF key \notin allowed_labels(rd.file_type)
             THEN [st |-> "AttributeError", roi |-> rd.roi]
             ELSE IF idx = 0 THEN [st |-> "KeyError", roi |-> rd.roi]
             ELSE IF items[k].value.whole
             THEN set_roi_keys(rd, roi_tmp, items, k + 1)
             ELSE set_roi_keys(rd, set_roi_elements(roi_tmp, idx, items[k].value.t, 1),
                               items, k + 1)

\* ZEISSDataReader.set_roi(roi): the outcome and the _roi it leaves (<<>> is None)
set_roi(rd, roi) ==
    IF roi.none THEN [st |-> "ok", roi |-> <<>>]
    ELSE set_roi_keys(rd, full_roi(rd), roi.items, 1)

\* the lengths of the three axes of the file read
Shape == <<4, 5, 6>>

\* start and end values, step values
Indices == {ElemNone} \cup {Elem(x) : x \in {0, 1, 3, -1, -2}}
Steps == {ElemNone} \cup {Elem(x) : x \in {2, 0, -1}}

\* the values of an item: -1, (start, end), (start, end, step)
Values ==
    {Whole} \cup {Tuple(<<a, b>>) : a, b \in Indices}
            \cup {Tuple(<<a, b, c>>) : a, b \in Indices, c \in Steps}

Labels == {"channel", "angle", "vertical", "horizontal", "horizontal_y", "horizontal_x"}

\* the arguments of set_roi: None, {}, {label: value}; a label that is no axis of
\* the file comes with two values only
Rois(file_type) ==
    {NoRoi, Dict(<<>>)}
      \cup {Dict(<<[key |-> l, value |-> v]>>) :
              l \in {k \in Labels : zeis_data_order(file_type, k) # 0}, v \in Values}
      \cup {Dict(<<[key |-> l, value |-> v]>>) :
              l \in {k \in Labels : zeis_data_order(file_type, k) = 0},
              v \in {Whole, Tuple(<<Elem(1), Elem(3)>>)}}

\* reader.set_roi(roi)
SetRoi(roi) ==
    LET r == set_roi(reader, roi)
    IN  /\ reader' = [reader EXCEPT !.roi = r.roi, !.arg = roi, !.st = r.st]
        /\ UNCHANGED <<nodes, vecs, last>>

\* a reader whose file name and metadata are set, as set_up has them before it calls
\* set_roi
RoiInit ==
    /\ reader \in {[file_type |-> ft, shape |-> Shape, roi |-> <<>>, arg |-> NoRoi,
                    st |-> "ok"] : ft \in {"txrm", "txm"}}
    /\ nodes = <<>>
    /\ vecs = <<>>
    /\ last = NoLast

RoiNext == \E roi \in Rois(reader.file_type) : SetRoi(roi)

SpecRoi == RoiInit /\ [][RoiNext]_vars

\* start or end x over an axis of length n as numpy slicing reads it
SliceIndex(x, n, default) ==
    IF x.none THEN default ELSE IF x.v >= 0 THEN x.v ELSE n + x.v

\* the [start, end, step] an item's value stands for over an axis of length n
SliceOf(value, n) ==
    IF value.whole THEN <<0, n, 1>>
    ELSE LET t == value.t
         IN  << SliceIndex(t[1], n, 0),
                SliceIndex(t[2], n, n),
                IF Len(t) < 3 \/ t[3].none \/ t[3].v <= 0 THEN 1 ELSE t[3].v >>

\* set_roi has just taken a dictionary
RoiSet == reader.st = "ok" /\ ~reader.arg.none

\* C16: set_roi normalises each axis entry (start, end, step) as numpy slicing
\* would over the full axis of length n: a non-negative start or end as given, None
\* as 0 resp. n, a negative x as n + x, -1 for the entry as the full axis, a missing
\* or non-positive step as 1; the axes not named keep the full axis
C16_RoiNormalised ==
    RoiSet =>
        \A a \in 1..3 :
            LET named == {k \in 1..Len(reader.arg.items) :
                            zeis_data_order(reader.file_type, reader.arg.items[k].key) = a}
            IN  IF named = {} THEN reader.roi[a] = <<0, Shape[a], 1>>
                ELSE \A k \in named :
                        reader.roi[a] = SliceOf(reader.arg.items[k].value, Shape[a])

\* the start or end x is not negative
NotNegative(x) == x.none \/ x.v >= 0

\* C16 for items that name no negative start or end, which the code keeps
RoiNormalisedNotNegative ==
    /\ RoiSet
    /\ \A k \in 1..Len(reader.arg.items) :
          LET v == reader.arg.items[k].value
          IN  v.whole \/ (NotNegative(v.t[1]) /\ NotNegative(v.t[2]))
    => \A a \in 1..3, k \in 1..Len(reader.arg.items) :
          zeis_data_order(reader.file_type, reader.arg.items[k].key) = a =>
              reader.roi[a] = SliceOf(reader.arg.items[k].value, Shape[a])

-----------------------------------------------------------------------------
(* The structure of the objects: children, scalar, constant, center.       *)

\* the structure of object i among ns with the vectors h: its children, scalar and
\* constant, and its center, as the vector object and as what the vector holds
Structure(ns, h, i) ==
    [functions |-> ns[i].functions, function |-> ns[i].function,
     scalar |-> ns[i].scalar, constant |-> ns[i].constant,
     center |-> ns[i].center,
     holds |-> IF ns[i].center = 0 THEN None ELSE h[ns[i].center].val]

\* the step leaves the structure of every object there was as it is
StructureKept == \A i \in Ids : Structure(nodes', vecs', i) = Structure(nodes, vecs, i)

\* C17: no builder and no operator call changes the children, scalar, constant or
\* center of an object already constructed, whatever the argument vectors, an x that
\* is the vector used as a TranslateFunction's center included
C17_StructureImmutable == [][StructureKept]_vars

\* C17 for the builders and the assignments and reads of L and Lmax, which the code
\* keeps (under SpecAlgebra, SpecLipschitz and SpecLmax), and for the operator calls
\* on a vector of the caller's own
StructureKeptOwnVector == [][last'.x = 0 => StructureKept]_vars

-----------------------------------------------------------------------------
(* ScaledFunction's proximal_conjugate against Function's, under SpecCalls. *)

\* what Function.proximal_conjugate gives on the object and the vectors of the call
\* just made
GenericConjugate ==
    Function_proximal_conjugate(nodes, HeapBefore, last.self, XBefore, last.tau,
                                OutBefore)

\* the call just made is proximal_conjugate of a ScaledFunction
ScaledConjugateCalled ==
    HasCalled("proximal_conjugate") /\ nodes[last.self].kind = "Scaled"

-----------------------------------------------------------------------------
(* The output buffer, under SpecCalls.                                     *)

\* the vectors as the call just made would have found them without an output buffer
HeapWithoutOut ==
    last.pre \o (IF last.x = 0 THEN <<[val |-> last.xpre, inplace |-> last.inplace]>>
                 ELSE <<>>)

\* the call just made, made without the output buffer
WithoutOut ==
    CASE last.op = "gradient" -> Gradient(nodes, HeapWithoutOut, last.self, XBefore, 0)
      [] last.op = "proximal" ->
            Proximal(nodes, HeapWithoutOut, last.self, XBefore, last.tau, 0)
      [] OTHER ->
            ProximalConjugate(nodes, HeapWithoutOut, last.self, XBefore, last.tau, 0)

\* the call just made is gradient, proximal or proximal_conjugate of a
\* ConstantFunction, SumFunction, SumScalarFunction, ScaledFunction or
\* TranslateFunction
BufferedCall ==
    /\ last.op \in {"gradient", "proximal", "proximal_conjugate"}
    /\ nodes[last.self].kind \in {"Constant", "Zero", "Sum", "SumScalar", "Scaled",
                                   "Translate"}

\* the output buffer holds what the call without it returns as a new vector
OutIsReturned ==
    BufferedCall /\ last.out /\ WithoutOut.st = "ok" =>
        /\ Returned
        /\ last.outpost = ResultOf(WithoutOut, 0)

\* f.proximal(x - b, tau) + b for the TranslateFunction called, x and b as the call
\* found them: None when f.proximal fails
ProximalOfShifted ==
    LET self == last.self
        b == HeapBefore[nodes[self].center].val
        s == New(HeapBefore, QSub(last.xpre, b))
        r == Proximal(nodes, s.h, nodes[self].function, s.id, last.tau, 0)
    IN  IF r.st = "ok" THEN QAdd(ResultOf(r, 0), b) ELSE None

\* a * f.gradient(x) for the ScaledFunction called: None when f.gradient fails
ScaledGradient ==
    LET self == last.self
        r == Gradient(nodes, HeapBefore, nodes[self].function, XBefore, 0)
    IN  IF r.st = "ok" THEN QMul(nodes[self].scalar, ResultOf(r, 0)) ELSE None

\* Translate(f, b).proximal(x, tau) == f.proximal(x - b, tau) + b
TranslateProximalIdentity ==
    HasCalled("proximal") /\ nodes[last.self].kind = "Translate" /\ Returned =>
        Result = ProximalOfShifted

\* Scaled(f, a).gradient(x) == a * f.gradient(x)
ScaledGradientIdentity ==
    HasCalled("gradient") /\ nodes[last.self].kind = "Scaled" /\ Returned =>
        Result = ScaledGradient

\* C19: for gradient, proximal and proximal_conjugate of every kind of object, a call
\* with an output buffer other than x leaves in it the vector the same call without
\* it returns; Translate(f, b).proximal(x, tau) is f.proximal(x - b, tau) + b and
\* Scaled(f, a).gradient(x) is a * f.gradient(x), with and without the buffer
C19_OutputBuffer ==
    /\ OutIsReturned
    /\ TranslateProximalIdentity
    /\ ScaledGradientIdentity

\* C19 for an x that is a vector of the caller's own
OutputBufferOwnVector == last.x = 0 => C19_OutputBuffer

=============================================================================
